---- MODULE Spec2Model ----
(***************************************************************************)
(* Model of test-detection/detect_checker.py: the DetectChecker harness    *)
(* that generates secret fixtures, probes a pre-commit hook with them on   *)
(* an ephemeral branch and aggregates the detection statistics.            *)
(*                                                                         *)
(* Strings are sequences of one-character strings, so that splitting,      *)
(* joining, case conversion and substring tests are computed as Python     *)
(* computes them.  Commits are indices into the object store `objects`.    *)
(***************************************************************************)
EXTENDS Integers, Sequences, FiniteSets, TLC

\* ------------------------------------------------------------ bounds
\* Longest catalog (list of SSM parameters) of a run.
MaxCatalog == 2
\* Largest number of template files under templates/.
MaxTemplates == 2

\* ------------------------------------------------------------ strings
Lowers == <<"a","b","c","d","e","f","g","h","i","j","k","l","m",
            "n","o","p","q","r","s","t","u","v","w","x","y","z">>
Uppers == <<"A","B","C","D","E","F","G","H","I","J","K","L","M",
            "N","O","P","Q","R","S","T","U","V","W","X","Y","Z">>

Range(s) == {s[k] : k \in DOMAIN s}

IsLower(c) == c \in Range(Lowers)
IsUpper(c) == c \in Range(Uppers)
IsCased(c) == IsLower(c) \/ IsUpper(c)

PosIn(c, alphabet) == CHOOSE k \in DOMAIN alphabet : alphabet[k] = c

\* str.lower() on one character
LowerChar(c) == IF IsUpper(c) THEN Lowers[PosIn(c, Uppers)] ELSE c
\* str.upper() on one character
UpperChar(c) == IF IsLower(c) THEN Uppers[PosIn(c, Lowers)] ELSE c

\* str.lower()
Lower(s) == [k \in DOMAIN s |-> LowerChar(s[k])]

\* A title-casing that capitalizes without lower-casing the other letters.
TitleKeepingCase(s) ==
    [k \in DOMAIN s |->
        IF IsCased(s[k]) /\ ~(k > 1 /\ IsCased(s[k-1]))
        THEN UpperChar(s[k]) ELSE s[k]]

\* str.title(): a cased character is upper-cased when it does not follow a
\* cased character and lower-cased when it does; the others are kept.
Title(s) ==
    [k \in DOMAIN s |->
        IF ~IsCased(s[k]) THEN s[k]
        ELSE IF k > 1 /\ IsCased(s[k-1]) THEN LowerChar(s[k])
        ELSE UpperChar(s[k])]

\* str.replace(c, "") for a one-character c
RECURSIVE RemoveChar(_, _)
RemoveChar(s, c) ==
    IF s = <<>> THEN <<>>
    ELSE IF Head(s) = c THEN RemoveChar(Tail(s), c)
    ELSE <<Head(s)>> \o RemoveChar(Tail(s), c)

\* str.split(sep) / re.split("[seps]", s): the list of the (possibly empty)
\* pieces between separator characters; never an empty list.
RECURSIVE SplitAcc(_, _, _)
SplitAcc(s, seps, cur) ==
    IF s = <<>> THEN <<cur>>
    ELSE IF Head(s) \in seps THEN <<cur>> \o SplitAcc(Tail(s), seps, <<>>)
    ELSE SplitAcc(Tail(s), seps, Append(cur, Head(s)))

Split(s, seps) == SplitAcc(s, seps, <<>>)

\* sep.join(words)
RECURSIVE Join(_, _)
Join(words, sep) ==
    IF words = <<>> THEN <<>>
    ELSE IF Len(words) = 1 THEN words[1]
    ELSE words[1] \o sep \o Join(Tail(words), sep)

\* list.pop(): the last element, and the list without it
Last(l) == l[Len(l)]
Front(l) == SubSeq(l, 1, Len(l) - 1)

\* `sub in s` for strings
Contains(s, sub) ==
    \E k \in 0..(Len(s) - Len(sub)) : SubSeq(s, k + 1, k + Len(sub)) = sub

StartsWith(s, pre) == Len(s) >= Len(pre) /\ SubSeq(s, 1, Len(pre)) = pre

\* ------------------------------------------------------------ literals
S_commit == <<"c","o","m","m","i","t">>
S_commits_dir == <<"c","o","m","m","i","t","s","/">>
S_README_md == <<"R","E","A","D","M","E",".","m","d">>
S_java == <<"j","a","v","a">>
S_gitignore == <<".","g","i","t","i","g","n","o","r","e">>
NameSeparators == {"-", "_", ".", " "}

\* ------------------------------------------------------------ file names
\* DetectChecker.generate_temp_file_name
generate_temp_file_name(source, secret_type, template) ==
    LET template_components == Split(template, {"."})
        extension == Last(template_components)
        file_name == Join(Front(template_components), <<".">>)
        temp_file_words ==
            Split(S_commit \o <<"_">> \o source \o <<"_">> \o secret_type,
                  NameSeparators)
        temp_file_name ==
            IF extension = S_java
            THEN RemoveChar(Title(Join(temp_file_words, <<" ">>)), " ")
                     \o file_name
            ELSE Lower(Join(temp_file_words, <<"_">>)) \o <<"_">> \o file_name
    IN  S_commits_dir \o temp_file_name \o <<".">> \o extension

\* ------------------------------------------------------------ inputs
S_sourceA == <<"s","o","u","r","c","e","A">>
S_b == <<"b">>
S_aws_key == <<"a","w","s","_","k","e","y">>
S_t_py == <<"t",".","p","y">>
S_T_java == <<"T",".","j","a","v","a">>
S_stale == S_commits_dir \o <<"o","l","d",".","p","y">>
S_readme_path == S_commits_dir \o S_README_md

\* Source and secret-type components of the SSM parameter names.
Sources == {S_sourceA, S_b}
SecretTypes == {S_aws_key}
\* File names that may be found under templates/.
TemplateNames == {S_t_py, S_T_java, S_README_md}

Entries == [source : Sources, secret_type : SecretTypes]

SeqsUpTo(S, n) == UNION {[1..m -> S] : m \in 0..n}
NoDuplicates(l) == \A a, b \in DOMAIN l : a # b => l[a] # l[b]

\* The parameters the store holds under /detect-secrets/example-data.
Catalogs == SeqsUpTo(Entries, MaxCatalog)
\* The keys of self.templates in insertion (glob) order: a dict has no
\* duplicate keys.
TemplateLists == {l \in SeqsUpTo(TemplateNames, MaxTemplates) : NoDuplicates(l)}

\* Files tracked by the commit the run starts from.
BaseTree == {S_gitignore, S_readme_path}
\* The commit the run starts from (the only object in the store at start).
BaseCommit == 1
MainBranch == "main"
\* f"detect_test_{timestamp}": one run has one timestamp.
TestBranch == "detect_test"

EntryPoints == {"check", "branch", "build_tests"}

VARIABLES
    entry,          \* the entry point invoked (fire.Fire)
    cred,           \* "AWS_ACCESS_KEY_ID" in os.environ
    catalog,        \* what get_paged_ssm_params will return
    templates,      \* self.templates (keys, in order)
    pc,             \* position in the entry point
    exc,            \* the exception that left the entry point, "" if none
    raisedAt,       \* the position that raised it
    worktree,       \* files of the working tree (.gitignore and commits/*)
    index,          \* paths in the version-control index
    objects,        \* commit objects: [parent, tree]
    branches,       \* branch name -> commit
    head,           \* HEAD: [ref |-> branch or "", sha |-> commit if detached]
    origHead,       \* HEAD when the run started
    parent_branch,  \* self.parent_branch (a commit id), 0 before _load_repo
    removalCommit,  \* the commit made by _remove_ignore_file, 0 before it
    entered,        \* _checkout_test_branch has returned
    ssm_params,     \* local of _build_commitable_temp_files
    count,          \* local of _build_commitable_temp_files
    tests,          \* self.tests
    status,         \* local of check: [passed, failed] lists of paths
    i,              \* index of the probing loop over self.tests
    detected,       \* local of _test_commit
    addRes,         \* how index.add ended in the current probe
    commitRes,      \* how index.commit ended in the current probe
    teardownCalls,  \* number of calls of _delete_test_branch
    teardownSteps,  \* the steps of _delete_test_branch that were attempted
    language_stats, \* local of check
    secret_stats,   \* local of check
    stats,          \* local of check
    printed,        \* messages printed so far
    pages,          \* the pages the parameter store serves, in order
    token,          \* local of get_paged_ssm_params
    has_next_page,  \* local of get_paged_ssm_params
    requests        \* the NextToken of each request sent so far

vars == <<entry, cred, catalog, templates, pc, exc, raisedAt, worktree, index,
          objects, branches, head, origHead, parent_branch, removalCommit,
          entered, ssm_params, count, tests, status, i, detected, addRes,
          commitRes, teardownCalls, teardownSteps, language_stats,
          secret_stats, stats, printed, pages, token, has_next_page,
          requests>>

\* The locals of get_paged_ssm_params and the store it reads: no step of
\* DetectChecker touches them.
pagingVars == <<pages, token, has_next_page, requests>>
envVars == <<entry, cred, catalog, templates, origHead, pagingVars>>
gitVars == <<index, objects, branches, head>>
probeVars == <<detected, addRes, commitRes>>
statVars == <<language_stats, secret_stats, stats>>

\* None, as the value of token and as the absence of a NextToken key
NoToken == "None"
\* Before get_paged_ssm_params is entered
PagingIdle ==
    /\ pages = <<>>
    /\ token = NoToken
    /\ has_next_page = FALSE
    /\ requests = <<>>

HeadCommit == IF head.ref # "" THEN branches[head.ref] ELSE head.sha
EmptyFn == [x \in {} |-> 0]

Init ==
    /\ entry \in EntryPoints
    /\ cred \in BOOLEAN
    /\ catalog \in Catalogs
    /\ templates \in TemplateLists
    /\ pc = "start"
    /\ exc = ""
    /\ raisedAt = ""
    /\ worktree \in {BaseTree, BaseTree \cup {S_stale}}
    /\ index = BaseTree
    /\ objects = <<[parent |-> 0, tree |-> BaseTree]>>
    /\ branches = [b \in {MainBranch} |-> BaseCommit]
    /\ origHead \in {[ref |-> MainBranch, sha |-> 0], [ref |-> "", sha |-> BaseCommit]}
    /\ head = origHead
    /\ parent_branch = 0
    /\ removalCommit = 0
    /\ entered = FALSE
    /\ ssm_params = <<>>
    /\ count = 0
    /\ tests = <<>>
    /\ status = [passed |-> <<>>, failed |-> <<>>]
    /\ i = 0
    /\ detected = FALSE
    /\ addRes = ""
    /\ commitRes = ""
    /\ teardownCalls = 0
    /\ teardownSteps = {}
    /\ language_stats = EmptyFn
    /\ secret_stats = EmptyFn
    /\ stats = EmptyFn
    /\ printed = <<>>
    /\ PagingIdle

\* An exception leaves the entry point: nothing in check, branch or
\* build_tests catches it.
Raise(e) ==
    /\ pc' = "raised"
    /\ exc' = e
    /\ raisedAt' = pc

NoRaise == UNCHANGED <<exc, raisedAt>>

\* DetectChecker.cleanup: every file of commits/ without README.md in its
\* path is removed.
cleanup(files) ==
    {f \in files : ~(StartsWith(f, S_commits_dir) /\ ~Contains(f, S_README_md))}

NoCredentialsMessage == "No AWS credentials present. Run with AWS credentials."

\* ------------------------------------------------------------ entry points
\* check, line 178: cleanup runs before the credential test.
CheckCleanup ==
    /\ pc = "start" /\ entry = "check"
    /\ worktree' = cleanup(worktree)
    /\ pc' = "gate"
    /\ UNCHANGED <<envVars, gitVars, probeVars, statVars, exc, raisedAt,
                   parent_branch, removalCommit, entered, ssm_params, count,
                   tests, status, i, teardownCalls, teardownSteps, printed>>

\* check, lines 179-180 and 251-252.
CheckGate ==
    /\ pc = "gate"
    /\ IF cred
       THEN pc' = "branch" /\ printed' = printed
       ELSE pc' = "done" /\ printed' = Append(printed, NoCredentialsMessage)
    /\ UNCHANGED <<envVars, gitVars, probeVars, statVars, exc, raisedAt,
                   worktree, parent_branch, removalCommit, entered, ssm_params,
                   count, tests, status, i, teardownCalls, teardownSteps>>

\* build_tests, lines 261-262 and 264-265.
BuildTestsGate ==
    /\ pc = "start" /\ entry = "build_tests"
    /\ IF cred
       THEN /\ worktree' = cleanup(worktree)
            /\ pc' = "ssm"
            /\ printed' = printed
       ELSE /\ worktree' = worktree
            /\ pc' = "done"
            /\ printed' = Append(printed, NoCredentialsMessage)
    /\ UNCHANGED <<envVars, gitVars, probeVars, statVars, exc, raisedAt,
                   parent_branch, removalCommit, entered, ssm_params, count,
                   tests, status, i, teardownCalls, teardownSteps>>

\* branch, lines 255-256 (cleanup, then _load_repo, lines 121-125): called by
\* check, or invoked as an entry point, where no credential test precedes it.
Branch ==
    /\ \/ pc = "branch"
       \/ pc = "start" /\ entry = "branch"
    /\ worktree' = cleanup(worktree)
    /\ parent_branch' = HeadCommit
    /\ pc' = "create_head"
    /\ UNCHANGED <<envVars, gitVars, probeVars, statVars, exc, raisedAt,
                   removalCommit, entered, ssm_params, count, tests, status, i,
                   teardownCalls, teardownSteps, printed>>

\* ------------------------------------------------------------ sandbox entry
\* _checkout_test_branch, line 132: repo.create_head(branch_name) makes the
\* branch at the current commit, or fails (a branch of that name exists).
CreateHead ==
    /\ pc = "create_head"
    /\ \E r \in {"ok", "OSError"} :
        IF r = "ok" /\ TestBranch \notin DOMAIN branches
        THEN /\ branches' = [b \in DOMAIN branches \cup {TestBranch} |->
                                IF b = TestBranch THEN HeadCommit ELSE branches[b]]
             /\ pc' = "checkout"
             /\ NoRaise
        ELSE /\ Raise("OSError")
             /\ UNCHANGED branches
    /\ UNCHANGED <<envVars, index, objects, head, probeVars, statVars, worktree,
                   parent_branch, removalCommit, entered, ssm_params, count,
                   tests, status, i, teardownCalls, teardownSteps, printed>>

\* _checkout_test_branch, line 133: test_branch.checkout().
Checkout ==
    /\ pc = "checkout"
    /\ \E r \in {"ok", "GitCommandError"} :
        IF r = "ok"
        THEN /\ head' = [ref |-> TestBranch, sha |-> 0]
             /\ pc' = "remove_ignore"
             /\ NoRaise
        ELSE /\ Raise(r)
             /\ UNCHANGED head
    /\ UNCHANGED <<envVars, index, objects, branches, probeVars, statVars,
                   worktree, parent_branch, removalCommit, entered, ssm_params,
                   count, tests, status, i, teardownCalls, teardownSteps,
                   printed>>

\* _remove_ignore_file, line 168: index.remove([".gitignore"],
\* working_tree=True) is `git rm`, which fails on a path the index lacks.
RemoveIgnoreFile ==
    /\ pc = "remove_ignore"
    /\ \E r \in {"ok", "GitCommandError"} :
        IF r = "ok" /\ S_gitignore \in index
        THEN /\ index' = index \ {S_gitignore}
             /\ worktree' = worktree \ {S_gitignore}
             /\ pc' = "commit_ignore"
             /\ NoRaise
        ELSE /\ Raise("GitCommandError")
             /\ UNCHANGED <<index, worktree>>
    /\ UNCHANGED <<envVars, objects, branches, head, probeVars, statVars,
                   parent_branch, removalCommit, entered, ssm_params, count,
                   tests, status, i, teardownCalls, teardownSteps, printed>>

\* index.commit(message): a new commit of the index on top of HEAD's commit;
\* the branch HEAD is on (or a detached HEAD) moves to it.
NewCommit == [parent |-> HeadCommit, tree |-> index]
HeadMovedTo(c) ==
    IF head.ref # ""
    THEN /\ branches' = [branches EXCEPT ![head.ref] = c]
         /\ head' = head
    ELSE /\ head' = [head EXCEPT !.sha = c]
         /\ branches' = branches

\* _remove_ignore_file, lines 169-170, then the return of
\* _checkout_test_branch (line 135) and branch's print (line 258).  The
\* commit runs the hooks like any other and may be rejected by them.
CommitIgnoreRemoval ==
    /\ pc = "commit_ignore"
    /\ \E r \in {"ok", "HookExecutionError", "GitCommandError"} :
        IF r = "ok"
        THEN /\ objects' = Append(objects, NewCommit)
             /\ HeadMovedTo(Len(objects) + 1)
             /\ removalCommit' = Len(objects) + 1
             /\ entered' = TRUE
             /\ pc' = IF entry = "branch" THEN "done" ELSE "ssm"
             /\ NoRaise
        ELSE /\ Raise(r)
             /\ UNCHANGED <<objects, branches, head, removalCommit, entered>>
    /\ UNCHANGED <<envVars, index, probeVars, statVars, worktree, parent_branch,
                   ssm_params, count, tests, status, i, teardownCalls,
                   teardownSteps, printed>>

\* ------------------------------------------------------------ generation
\* _build_commitable_temp_files, lines 109-111: the catalog is fetched, or
\* the request raises.  The paging of get_paged_ssm_params is modelled by
\* itself in PagedSpec.
FetchParams ==
    /\ pc = "ssm"
    /\ \E r \in {"ok", "ClientError"} :
        IF r = "ok"
        THEN /\ ssm_params' = catalog
             /\ count' = 0
             /\ pc' = "populate"
             /\ NoRaise
        ELSE /\ Raise(r)
             /\ UNCHANGED <<ssm_params, count>>
    /\ UNCHANGED <<envVars, gitVars, probeVars, statVars, worktree,
                   parent_branch, removalCommit, entered, tests, status, i,
                   teardownCalls, teardownSteps, printed>>

\* _populate_templates, lines 79-97, for one template
Fixture(source, secret_type, template) ==
    LET commit_file == generate_temp_file_name(source, secret_type, template)
        extension == Last(Split(commit_file, {"."}))
    IN  [source |-> source, secret_type |-> secret_type,
         test_file |-> commit_file, file_type |-> extension,
         detected |-> "unset", outcome |-> "unset"]

\* A generation that leaves the template loop after the first template.
FixturesOfFirst(param) ==
    [t \in DOMAIN templates \cap {1} |->
        Fixture(param.source, param.secret_type, templates[t])]

\* _populate_templates, lines 78-97: the fixtures of one catalog entry, one
\* per template, in the order of self.templates
FixturesOf(param) ==
    [t \in DOMAIN templates |->
        Fixture(param.source, param.secret_type, templates[t])]

\* _build_commitable_temp_files, lines 112-119, one iteration: the files of
\* one parameter are written and its fixtures appended, or open() raises.
PopulateTemplates ==
    /\ pc = "populate"
    /\ count < Len(ssm_params)
    /\ \E r \in {"ok", "OSError"} :
        IF r = "ok"
        THEN /\ count' = count + 1
             /\ tests' = tests \o FixturesOf(ssm_params[count + 1])
             /\ worktree' = worktree \cup
                    {f.test_file : f \in Range(FixturesOf(ssm_params[count + 1]))}
             /\ pc' = "populate"
             /\ NoRaise
        ELSE /\ Raise(r)
             /\ UNCHANGED <<count, tests, worktree>>
    /\ UNCHANGED <<envVars, gitVars, probeVars, statVars, parent_branch,
                   removalCommit, entered, ssm_params, status, i,
                   teardownCalls, teardownSteps, printed>>

\* End of the loop of _build_commitable_temp_files; check goes on to line
\* 183, build_tests returns.
PopulateDone ==
    /\ pc = "populate"
    /\ count = Len(ssm_params)
    /\ pc' = IF entry = "build_tests" THEN "done" ELSE "loop"
    /\ i' = 1
    /\ status' = [passed |-> <<>>, failed |-> <<>>]
    /\ UNCHANGED <<envVars, gitVars, probeVars, statVars, exc, raisedAt,
                   worktree, parent_branch, removalCommit, entered, ssm_params,
                   count, tests, teardownCalls, teardownSteps, printed>>

\* ------------------------------------------------------------ probing
\* The fixture of the current iteration and _test_commit's argument.
example == tests[i].test_file

\* check, lines 184-187: the next fixture is handed to _test_commit.
LoopProbe ==
    /\ pc = "loop"
    /\ i <= Len(tests)
    /\ ~Contains(example, S_README_md)
    /\ detected' = FALSE
    /\ addRes' = ""
    /\ commitRes' = ""
    /\ pc' = "add"
    /\ UNCHANGED <<envVars, gitVars, statVars, exc, raisedAt, worktree,
                   parent_branch, removalCommit, entered, ssm_params, count,
                   tests, status, i, teardownCalls, teardownSteps, printed>>

\* check, lines 184-186: a fixture with README.md in its path is passed over.
LoopSkip ==
    /\ pc = "loop"
    /\ i <= Len(tests)
    /\ Contains(example, S_README_md)
    /\ i' = i + 1
    /\ UNCHANGED <<envVars, gitVars, probeVars, statVars, pc, exc, raisedAt,
                   worktree, parent_branch, removalCommit, entered, ssm_params,
                   count, tests, status, teardownCalls, teardownSteps, printed>>

\* _test_commit, line 149: index.add([relative_path]).  A missing file raises
\* FileNotFoundError, a failing git command GitCommandError (both caught at
\* line 160); anything else (a locked index) leaves _test_commit.
StageFixture ==
    /\ pc = "add"
    /\ \E r \in {"ok", "FileNotFoundError", "GitCommandError", "OSError"} :
        LET res == IF r = "ok" /\ example \notin worktree
                   THEN "FileNotFoundError" ELSE r
        IN  /\ addRes' = res
            /\ CASE res = "ok" ->
                      /\ index' = index \cup {example}
                      /\ pc' = "commit"
                      /\ NoRaise
                 [] res \in {"FileNotFoundError", "GitCommandError"} ->
                      /\ pc' = "except_other"
                      /\ NoRaise
                      /\ UNCHANGED index
                 [] OTHER ->
                      /\ Raise(res)
                      /\ UNCHANGED index
    /\ UNCHANGED <<envVars, objects, branches, head, detected, commitRes,
                   statVars, worktree, parent_branch, removalCommit, entered,
                   ssm_params, count, tests, status, i, teardownCalls,
                   teardownSteps, printed>>

\* _test_commit, lines 150-151: index.commit(message).  The pre-commit hook
\* rejects it (HookExecutionError, caught at line 155), or the commit is
\* made, or git fails (caught at line 160), or something else is raised.
CommitFixture ==
    /\ pc = "commit"
    /\ \E r \in {"ok", "HookExecutionError", "GitCommandError", "OSError"} :
        /\ commitRes' = r
        /\ CASE r = "ok" ->
                  /\ objects' = Append(objects, NewCommit)
                  /\ HeadMovedTo(Len(objects) + 1)
                  /\ pc' = "rollback"
                  /\ NoRaise
             [] r = "HookExecutionError" ->
                  /\ pc' = "except_hook"
                  /\ NoRaise
                  /\ UNCHANGED <<objects, branches, head>>
             [] r = "GitCommandError" ->
                  /\ pc' = "except_other"
                  /\ NoRaise
                  /\ UNCHANGED <<objects, branches, head>>
             [] OTHER ->
                  /\ Raise(r)
                  /\ UNCHANGED <<objects, branches, head>>
    /\ UNCHANGED <<envVars, index, detected, addRes, statVars, worktree,
                   parent_branch, removalCommit, entered, ssm_params, count,
                   tests, status, i, teardownCalls, teardownSteps, printed>>

\* repo.commit("HEAD~1"): the parent of HEAD's commit, 0 if it has none
HeadParent == objects[HeadCommit].parent

\* A rollback that leaves the branch where the commit put it.
RollbackCommitKept ==
    /\ pc = "rollback"
    /\ pc' = "remove"
    /\ UNCHANGED <<envVars, gitVars, probeVars, statVars, exc, raisedAt,
                   worktree, parent_branch, removalCommit, entered, ssm_params,
                   count, tests, status, i, teardownCalls, teardownSteps,
                   printed>>

\* _test_commit, line 152: the active branch is pointed at HEAD~1; neither
\* the index nor the working tree is touched.  Resolving the revision or
\* writing the reference may raise, and neither exception is caught.
RollbackCommit ==
    /\ pc = "rollback"
    /\ \E r \in {"ok", "ValueError"} :
        IF r = "ok" /\ head.ref # "" /\ HeadParent # 0
        THEN /\ branches' = [branches EXCEPT ![head.ref] = HeadParent]
             /\ pc' = "remove"
             /\ NoRaise
        ELSE /\ Raise("ValueError")
             /\ UNCHANGED branches
    /\ UNCHANGED <<envVars, index, objects, head, probeVars, statVars, worktree,
                   parent_branch, removalCommit, entered, ssm_params, count,
                   tests, status, i, teardownCalls, teardownSteps, printed>>

\* index.remove([path]) is `git rm --cached -- path`: it ends as r, except
\* that it cannot succeed on a path the index does not hold.
RemoveResult(r, path) ==
    IF r = "ok" /\ path \notin index THEN "GitCommandError" ELSE r

RemoveOutcomes == {"ok", "GitCommandError", "OSError"}

\* _test_commit, lines 153-154: unstage after the rollback.  A GitCommandError
\* raised here is caught at line 160.
UnstageAfterRollback ==
    /\ pc = "remove"
    /\ \E r \in RemoveOutcomes :
        LET res == RemoveResult(r, example)
        IN  CASE res = "ok" ->
                  /\ index' = index \ {example}
                  /\ pc' = "return"
                  /\ NoRaise
             [] res = "GitCommandError" ->
                  /\ pc' = "except_other"
                  /\ NoRaise
                  /\ UNCHANGED index
             [] OTHER ->
                  /\ Raise(res)
                  /\ UNCHANGED index
    /\ UNCHANGED <<envVars, objects, branches, head, probeVars, statVars,
                   worktree, parent_branch, removalCommit, entered, ssm_params,
                   count, tests, status, i, teardownCalls, teardownSteps,
                   printed>>

\* A hook handler that reports the detection without unstaging the file.
ExceptHookStaged ==
    /\ pc = "except_hook"
    /\ detected' = TRUE
    /\ pc' = "return"
    /\ UNCHANGED <<envVars, gitVars, addRes, commitRes, statVars, exc, raisedAt,
                   worktree, parent_branch, removalCommit, entered, ssm_params,
                   count, tests, status, i, teardownCalls, teardownSteps,
                   printed>>

\* _test_commit, lines 155-159: the hook rejected the commit.  The unstage
\* comes before detected = True, and what it raises is raised inside an
\* except clause, where no other clause of the statement catches it.
ExceptHook ==
    /\ pc = "except_hook"
    /\ \E r \in RemoveOutcomes :
        LET res == RemoveResult(r, example)
        IN  IF res = "ok"
            THEN /\ index' = index \ {example}
                 /\ detected' = TRUE
                 /\ pc' = "return"
                 /\ NoRaise
            ELSE /\ Raise(res)
                 /\ UNCHANGED <<index, detected>>
    /\ UNCHANGED <<envVars, objects, branches, head, addRes, commitRes,
                   statVars, worktree, parent_branch, removalCommit, entered,
                   ssm_params, count, tests, status, i, teardownCalls,
                   teardownSteps, printed>>

\* _test_commit, lines 160-162: another failure; the unstage is again inside
\* the except clause.
ExceptOther ==
    /\ pc = "except_other"
    /\ \E r \in RemoveOutcomes :
        LET res == RemoveResult(r, example)
        IN  IF res = "ok"
            THEN /\ index' = index \ {example}
                 /\ pc' = "return"
                 /\ NoRaise
            ELSE /\ Raise(res)
                 /\ UNCHANGED index
    /\ UNCHANGED <<envVars, objects, branches, head, probeVars, statVars,
                   worktree, parent_branch, removalCommit, entered, ssm_params,
                   count, tests, status, i, teardownCalls, teardownSteps,
                   printed>>

\* _test_commit, line 163, and check, lines 188-191.
ProbeReturn ==
    /\ pc = "return"
    /\ LET outcome == IF detected THEN "passed" ELSE "failed"
       IN  /\ status' = [status EXCEPT ![outcome] = Append(@, example)]
           /\ tests' = [tests EXCEPT ![i].detected =
                                        IF detected THEN "True" ELSE "False",
                                     ![i].outcome = outcome]
    /\ i' = i + 1
    /\ pc' = "loop"
    /\ UNCHANGED <<envVars, gitVars, probeVars, statVars, exc, raisedAt,
                   worktree, parent_branch, removalCommit, entered, ssm_params,
                   count, teardownCalls, teardownSteps, printed>>

\* A loop exit that goes on to the aggregation without the teardown.
LoopEndAggregate ==
    /\ pc = "loop"
    /\ i > Len(tests)
    /\ pc' = "aggregate"
    /\ UNCHANGED <<envVars, gitVars, probeVars, statVars, exc, raisedAt,
                   worktree, parent_branch, removalCommit, entered, ssm_params,
                   count, tests, status, i, teardownCalls, teardownSteps,
                   printed>>

\* check, line 193: the loop is over and _delete_test_branch is called.
LoopEnd ==
    /\ pc = "loop"
    /\ i > Len(tests)
    /\ teardownCalls' = teardownCalls + 1
    /\ pc' = "restore_ignore"
    /\ UNCHANGED <<envVars, gitVars, probeVars, statVars, exc, raisedAt,
                   worktree, parent_branch, removalCommit, entered, ssm_params,
                   count, tests, status, i, teardownSteps, printed>>

\* ------------------------------------------------------------ sandbox exit
\* _delete_test_branch, line 139 (_restore_ignore_file, line 174):
\* `git reset --hard HEAD^1` moves the current branch to the parent of its
\* head and makes the index and the tracked files equal to that commit.
\* What it raises leaves _delete_test_branch and check.
RestoreIgnoreFile ==
    /\ pc = "restore_ignore"
    /\ teardownSteps' = teardownSteps \cup {"restore_ignore"}
    /\ \E r \in {"ok", "GitCommandError"} :
        IF r = "ok" /\ HeadParent # 0
        THEN LET target == objects[HeadParent].tree
                 tracked == index \cup objects[HeadCommit].tree
             IN  /\ HeadMovedTo(HeadParent)
                 /\ index' = target
                 /\ worktree' = (worktree \ (tracked \ target)) \cup target
                 /\ pc' = "reset_head"
                 /\ NoRaise
        ELSE /\ Raise("GitCommandError")
             /\ UNCHANGED <<branches, head, index, worktree>>
    /\ UNCHANGED <<envVars, objects, probeVars, statVars, parent_branch,
                   removalCommit, entered, ssm_params, count, tests, status, i,
                   teardownCalls, printed>>

\* _delete_test_branch, line 140: repo.head.reference = self.parent_branch.
\* parent_branch is the hexsha recorded by _load_repo (line 123), and a
\* reference set from a hexsha string is written as that commit id: HEAD is
\* detached at it.
ResetHeadReference ==
    /\ pc = "reset_head"
    /\ teardownSteps' = teardownSteps \cup {"reset_head"}
    /\ \E r \in {"ok", "OSError"} :
        IF r = "ok"
        THEN /\ head' = [ref |-> "", sha |-> parent_branch]
             /\ pc' = "delete_head"
             /\ NoRaise
        ELSE /\ Raise(r)
             /\ UNCHANGED head
    /\ UNCHANGED <<envVars, index, objects, branches, probeVars, statVars,
                   worktree, parent_branch, removalCommit, entered, ssm_params,
                   count, tests, status, i, teardownCalls, printed>>

\* _delete_test_branch, line 141: repo.delete_head(branch_name, force=True)
\* is `git branch -D`, which refuses the checked-out branch; then check,
\* line 194.
DeleteHead ==
    /\ pc = "delete_head"
    /\ teardownSteps' = teardownSteps \cup {"delete_head"}
    /\ \E r \in {"ok", "GitCommandError"} :
        IF r = "ok" /\ TestBranch \in DOMAIN branches /\ head.ref # TestBranch
        THEN /\ branches' = [b \in DOMAIN branches \ {TestBranch} |-> branches[b]]
             /\ pc' = "aggregate"
             /\ NoRaise
        ELSE /\ Raise("GitCommandError")
             /\ UNCHANGED branches
    /\ UNCHANGED <<envVars, index, objects, head, probeVars, statVars, worktree,
                   parent_branch, removalCommit, entered, ssm_params, count,
                   tests, status, i, teardownCalls, printed>>

\* ------------------------------------------------------------ aggregation
\* defaultdict(int): a counter that was never incremented reads 0
NoCounts == [total |-> 0, passed |-> 0, failed |-> 0]
CountsOf(st, key) == IF key \in DOMAIN st THEN st[key] ELSE NoCounts
Put(st, key, counts) ==
    [x \in DOMAIN st \cup {key} |-> IF x = key THEN counts ELSE st[x]]

\* check, lines 208-209
BumpTotal(st, key) ==
    Put(st, key, [CountsOf(st, key) EXCEPT !.total = @ + 1])
\* An outcome count that takes every fixture for a detection.
BumpOutcomePassed(st, key, det) ==
    Put(st, key, [CountsOf(st, key) EXCEPT !.passed = @ + 1])

\* check, lines 210-215
BumpOutcome(st, key, det) ==
    Put(st, key, IF det = "True"
                 THEN [CountsOf(st, key) EXCEPT !.passed = @ + 1]
                 ELSE [CountsOf(st, key) EXCEPT !.failed = @ + 1])

\* check, line 204: f"{test['source']}: {test['secret_type']}"
SecretKey(test) == test.source \o <<":", " ">> \o test.secret_type
\* check, line 200
LanguageKey(test) == test.file_type

\* The first fixture whose "detected" key is missing: reading it at line 210
\* raises KeyError.  Len(tests) + 1 if there is none.
FirstUnset ==
    CHOOSE n \in 1..(Len(tests) + 1) :
        /\ n <= Len(tests) => tests[n].detected = "unset"
        /\ \A m \in 1..(n - 1) : tests[m].detected # "unset"

\* check, lines 198-215: the buckets after the first n fixtures
RECURSIVE LanguageTally(_)
LanguageTally(n) ==
    IF n = 0 THEN EmptyFn
    ELSE BumpOutcome(BumpTotal(LanguageTally(n - 1), LanguageKey(tests[n])),
                     LanguageKey(tests[n]), tests[n].detected)

RECURSIVE SecretTally(_)
SecretTally(n) ==
    IF n = 0 THEN EmptyFn
    ELSE BumpOutcome(BumpTotal(SecretTally(n - 1), SecretKey(tests[n])),
                     SecretKey(tests[n]), tests[n].detected)

\* check, lines 196-215: the loop over self.tests; it ends with KeyError at
\* the first fixture without a "detected" key, after counting it in total.
Aggregate ==
    /\ pc = "aggregate"
    /\ IF FirstUnset > Len(tests)
       THEN /\ language_stats' = LanguageTally(Len(tests))
            /\ secret_stats' = SecretTally(Len(tests))
            /\ pc' = "report"
            /\ NoRaise
       ELSE /\ language_stats' = BumpTotal(LanguageTally(FirstUnset - 1),
                                           LanguageKey(tests[FirstUnset]))
            /\ secret_stats' = BumpTotal(SecretTally(FirstUnset - 1),
                                         SecretKey(tests[FirstUnset]))
            /\ Raise("KeyError")
    /\ UNCHANGED <<envVars, gitVars, probeVars, stats, worktree, parent_branch,
                   removalCommit, entered, ssm_params, count, tests, status, i,
                   teardownCalls, teardownSteps, printed>>

ReportMessage == "OKR detection rate"

\* check, lines 219-249: the two tables are printed, then the overall
\* figures are computed; the division at line 243 raises ZeroDivisionError
\* when total is 0.  success_rate is the quotient num / den.
Report ==
    /\ pc = "report"
    /\ LET passed == Len(status.passed)
           failed == Len(status.failed)
           total == passed + failed
       IN  IF total = 0
           THEN /\ stats' = [passed |-> passed, failed |-> failed,
                             total |-> total]
                /\ printed' = printed
                /\ Raise("ZeroDivisionError")
           ELSE /\ stats' = [passed |-> passed, failed |-> failed,
                             total |-> total,
                             success_rate |-> [num |-> 100 * passed,
                                               den |-> total]]
                /\ printed' = Append(printed, ReportMessage)
                /\ pc' = "done"
                /\ NoRaise
    /\ UNCHANGED <<envVars, gitVars, probeVars, language_stats, secret_stats,
                   worktree, parent_branch, removalCommit, entered, ssm_params,
                   count, tests, status, i, teardownCalls, teardownSteps>>

\* ------------------------------------------------------------ specification
Next ==
    \/ CheckCleanup
    \/ CheckGate
    \/ BuildTestsGate
    \/ Branch
    \/ CreateHead
    \/ Checkout
    \/ RemoveIgnoreFile
    \/ CommitIgnoreRemoval
    \/ FetchParams
    \/ PopulateTemplates
    \/ PopulateDone
    \/ LoopProbe
    \/ LoopSkip
    \/ StageFixture
    \/ CommitFixture
    \/ RollbackCommit
    \/ UnstageAfterRollback
    \/ ExceptHook
    \/ ExceptOther
    \/ ProbeReturn
    \/ LoopEnd
    \/ RestoreIgnoreFile
    \/ ResetHeadReference
    \/ DeleteHead
    \/ Aggregate
    \/ Report

Spec == Init /\ [][Next]_vars

\* ------------------------------------------------------------ properties
Terminal == {"done", "raised"}
ProbeSteps == {"add", "commit", "rollback", "remove", "except_hook",
               "except_other"}
TeardownSteps == {"restore_ignore", "reset_head", "delete_head"}
\* _test_commit was left by an exception
ProbeRaised == pc = "raised" /\ raisedAt \in ProbeSteps
\* _delete_test_branch has returned
TeardownCompleted ==
    \/ pc \in {"aggregate", "report"}
    \/ pc = "done" /\ teardownCalls > 0
    \/ pc = "raised" /\ raisedAt \in {"aggregate", "report"}
FixturePaths == {tests[k].test_file : k \in DOMAIN tests}
CommitsFiles(files) == {f \in files : StartsWith(f, S_commits_dir)}

\* C1: a run of check() that has entered the sandbox ends, on every exit
\* path, with _delete_test_branch having been executed exactly once.
C1_TeardownOnEveryExit ==
    (entry = "check" /\ entered /\ pc \in Terminal) => teardownCalls = 1

\* C2: once teardown has completed, HEAD is the reference it was before
\* sandbox entry (the same branch), the ephemeral branch is gone and the
\* ignore file is back.
C2_TeardownRestoresRepository ==
    TeardownCompleted =>
        /\ head = origHead
        /\ TestBranch \notin DOMAIN branches
        /\ S_gitignore \in worktree
        /\ S_gitignore \in index

\* C3: _test_commit returns true exactly when the hook rejected the commit,
\* and returns false when the commit succeeded and when staging or
\* committing failed for another reason.
C3_VerdictIffHookRejected ==
    (pc = "return" \/ ProbeRaised) =>
        /\ (pc = "return" /\ detected) <=> (commitRes = "HookExecutionError")
        /\ (\/ commitRes \in {"ok", "GitCommandError"}
            \/ addRes \in {"FileNotFoundError", "GitCommandError"})
               => (pc = "return" /\ ~detected)

\* C4: no failure of a step of a probe leaves _test_commit: the probing loop
\* is never aborted by one.
C4_ProbeFailuresContained == ~ProbeRaised

\* C5: when _test_commit returns, the fixture's path is not in the index, and
\* between two probes the index holds no fixture file.
C5_IndexCleanBetweenProbes ==
    /\ pc = "return" => example \notin index
    /\ pc = "loop" => index \cap FixturePaths = {}

C5_Witness ==
    /\ pc = "return"
    /\ commitRes = "ok"
    /\ Len(status.passed) > 0
    /\ Len(status.failed) > 0

\* C6: after every probe the ephemeral branch is back at the commit that
\* removed the ignore file, and the teardown's reset to HEAD^1 lands on the
\* commit that precedes that removal.
C6_BranchHeadKeptByProbes ==
    /\ pc \in {"return", "loop"} =>
           /\ head.ref = TestBranch
           /\ branches[TestBranch] = removalCommit
    /\ pc = "reset_head" =>
           /\ branches[TestBranch] = objects[removalCommit].parent
           /\ branches[TestBranch] = parent_branch

C6_Witness ==
    /\ pc = "reset_head"
    /\ Len(status.failed) > 1
    /\ Len(objects) > 3

\* C7: a failing step of teardown does not keep the later steps from being
\* attempted, nor the reporting phase from taking place.
C7_TeardownBestEffort ==
    (teardownCalls > 0 /\ pc \in Terminal) =>
        /\ teardownSteps = TeardownSteps
        /\ pc = "done" \/ raisedAt \in {"aggregate", "report"}

\* C8: check() never raises on the success-rate division, also when no
\* fixture was probed.
C8_NoDivisionByZero == ~(pc = "raised" /\ exc = "ZeroDivisionError")

\* C9: when aggregation starts every fixture of self.tests has detected and
\* outcome set, documentation fixtures included, and aggregation never reads
\* an unset detected field.
C9_AllFixturesTerminalAtAggregation ==
    /\ pc = "aggregate" =>
           \A k \in DOMAIN tests :
               tests[k].detected # "unset" /\ tests[k].outcome # "unset"
    /\ exc # "KeyError"

\* C10: without the credential no step of any entry point removes or writes
\* a file of commits/, creates or checks out a branch, or makes a commit.
C10_NoCredentialNoEffect ==
    [][~cred => /\ CommitsFiles(worktree') = CommitsFiles(worktree)
                /\ UNCHANGED <<objects, branches, head>>]_vars

\* The phase of check() a position belongs to: 1 cleanup, 2 sandbox entry,
\* 3 fixture generation, 4 probing, 5 sandbox exit, 6 aggregation, 7 report,
\* 8 the run has ended.
Phase(p) ==
    CASE p \in {"start", "gate", "branch"} -> 1
      [] p \in {"create_head", "checkout", "remove_ignore", "commit_ignore"} -> 2
      [] p \in {"ssm", "populate"} -> 3
      [] p \in {"loop", "return"} \cup ProbeSteps -> 4
      [] p \in TeardownSteps -> 5
      [] p = "aggregate" -> 6
      [] p = "report" -> 7
      [] OTHER -> 8

\* The fixtures _test_commit has returned a verdict for.
Probed == {k \in DOMAIN tests : tests[k].detected # "unset"}
\* The fixtures the probing loop does not skip.
Probeable == {k \in DOMAIN tests : ~Contains(tests[k].test_file, S_README_md)}

\* C11 (state part): fixtures exist, are staged and are probed only between
\* the end of sandbox entry and the start of sandbox exit; the fixtures probed
\* so far are the probeable ones before the loop index, in list order; the
\* aggregation has run only after the whole teardown.
C11_PhaseState ==
    entry = "check" =>
        /\ (tests # <<>> \/ Phase(pc) \in 3..7) => (cred /\ entered)
        /\ (pc \in ProbeSteps \cup {"return"}) =>
               /\ teardownCalls = 0
               /\ i \in Probeable
               /\ Probed = {k \in Probeable : k < i}
        /\ pc = "loop" => Probed = {k \in Probeable : k < i}
        /\ index \cap FixturePaths # {} => pc \in ProbeSteps \cup {"raised"}
        /\ Len(objects) > 2 => entered
        /\ teardownCalls > 0 => (Phase(pc) >= 5 /\ Probed = Probeable)
        /\ (Phase(pc) \in 6..7 \/ language_stats # EmptyFn \/ stats # EmptyFn)
               => (teardownCalls = 1 /\ teardownSteps = TeardownSteps)
        /\ status.passed \o status.failed # <<>> => Phase(pc) >= 4

\* C11 (step part): a run of check() never goes back to an earlier phase, a
\* commit is made only by sandbox entry or by a probe, a file is staged only
\* by a probe, and the probes take the fixtures one at a time in list order.
C11_PhaseStep ==
    entry = "check" =>
        /\ Phase(pc') >= Phase(pc)
        /\ objects' # objects => (pc = "commit_ignore" \/ pc = "commit")
        /\ ~(index' \subseteq index) => (pc = "add" \/ pc = "restore_ignore")
        /\ Probed' # Probed =>
               /\ pc = "return"
               /\ Probed' = Probed \cup {i}
               /\ \A k \in Probed : k < i
        /\ tests' # tests => (pc = "populate" \/ pc = "return")

\* C11: in a run of check() with credentials the phases occur in the order
\* cleanup, sandbox entry, fixture generation, probing, sandbox exit,
\* aggregation, report; fixtures are staged and committed only between
\* sandbox entry and sandbox exit, one at a time in the order of their
\* generation, and aggregation starts only after teardown.
C11_PhasesInOrder == []C11_PhaseState /\ [][C11_PhaseStep]_vars

C11_Witness ==
    /\ entry = "check"
    /\ pc = "done"
    /\ teardownCalls = 1
    /\ Len(status.passed) > 0
    /\ Len(status.failed) > 0
    /\ Len(tests) > 2

\* The aggregation loop of check() has completed.
Aggregated ==
    /\ entry = "check"
    /\ \/ pc = "report"
       \/ pc = "done" /\ teardownCalls = 1
       \/ pc = "raised" /\ raisedAt = "report"

Verdicts(S, verdict) == Cardinality({k \in S : tests[k].detected = verdict})

\* C12: every secret-type bucket and every file-type bucket counts the
\* probed fixtures of its key: passed those detected, failed those not
\* detected, total their sum; the overall summary counts all probed
\* fixtures, and success_rate is 100 * passed / total.
C12_StatsCountVerdicts ==
    Aggregated =>
        /\ DOMAIN secret_stats = {SecretKey(tests[k]) : k \in Probed}
        /\ \A key \in DOMAIN secret_stats :
              LET S == {k \in Probed : SecretKey(tests[k]) = key}
              IN  /\ secret_stats[key].passed = Verdicts(S, "True")
                  /\ secret_stats[key].failed = Verdicts(S, "False")
                  /\ secret_stats[key].total =
                         secret_stats[key].passed + secret_stats[key].failed
        /\ DOMAIN language_stats = {tests[k].file_type : k \in Probed}
        /\ \A key \in DOMAIN language_stats :
              LET S == {k \in Probed : tests[k].file_type = key}
              IN  /\ language_stats[key].passed = Verdicts(S, "True")
                  /\ language_stats[key].failed = Verdicts(S, "False")
                  /\ language_stats[key].total =
                         language_stats[key].passed + language_stats[key].failed
        /\ pc = "done" =>
              /\ stats.passed = Verdicts(Probed, "True")
              /\ stats.failed = Verdicts(Probed, "False")
              /\ stats.total = stats.passed + stats.failed
              /\ stats.success_rate.den > 0
              /\ stats.success_rate.num * stats.total =
                     100 * stats.passed * stats.success_rate.den

\* Three of four commits blocked: passed 3, failed 1, total 4, rate 75.
C12_Witness ==
    /\ entry = "check"
    /\ pc = "done"
    /\ teardownCalls = 1
    /\ stats.passed = 3
    /\ stats.failed = 1
    /\ stats.total = 4
    /\ stats.success_rate.num = 75 * stats.success_rate.den
    /\ Cardinality(DOMAIN secret_stats) = 2
    /\ Cardinality(DOMAIN language_stats) = 2

\* ------------------------------------------------------------ file names
\* Fixture generation alone (build_tests with the credential present), over
\* parameter names with upper-case letters, digits and separators.
S_a_b == <<"a", "_", "b">>
S_a == <<"a">>
S_x1y == <<"x", "1", "y">>
S_c == <<"c">>
S_b_c == <<"b", "_", "c">>
NameSources == {S_sourceA, S_a_b, S_a, S_x1y}
NameSecretTypes == {S_aws_key, S_c, S_b_c}
NameEntries == [source : NameSources, secret_type : NameSecretTypes]

NamesInit ==
    /\ entry = "build_tests"
    /\ cred = TRUE
    /\ catalog \in SeqsUpTo(NameEntries, MaxCatalog)
    /\ templates \in TemplateLists
    /\ pc = "start"
    /\ exc = ""
    /\ raisedAt = ""
    /\ worktree \in {BaseTree, BaseTree \cup {S_stale}}
    /\ index = BaseTree
    /\ objects = <<[parent |-> 0, tree |-> BaseTree]>>
    /\ branches = [b \in {MainBranch} |-> BaseCommit]
    /\ origHead = [ref |-> MainBranch, sha |-> 0]
    /\ head = origHead
    /\ parent_branch = 0
    /\ removalCommit = 0
    /\ entered = FALSE
    /\ ssm_params = <<>>
    /\ count = 0
    /\ tests = <<>>
    /\ status = [passed |-> <<>>, failed |-> <<>>]
    /\ i = 0
    /\ detected = FALSE
    /\ addRes = ""
    /\ commitRes = ""
    /\ teardownCalls = 0
    /\ teardownSteps = {}
    /\ language_stats = EmptyFn
    /\ secret_stats = EmptyFn
    /\ stats = EmptyFn
    /\ printed = <<>>
    /\ PagingIdle

NamesNext ==
    \/ BuildTestsGate
    \/ FetchParams
    \/ PopulateTemplates
    \/ PopulateDone

NamesSpec == NamesInit /\ [][NamesNext]_vars

\* The template the k-th fixture of self.tests was rendered from: the
\* fixtures of a parameter follow the order of self.templates.
TemplateOf(k) == templates[((k - 1) % Len(templates)) + 1]
\* The tokens of "commit_<source>_<secretType>"
NameTokens(test) ==
    Split(S_commit \o <<"_">> \o test.source \o <<"_">> \o test.secret_type,
          NameSeparators)
TemplateExtension(template) == Last(Split(template, {"."}))

\* A token with its first letter capitalized and the others as given
TokenCapitalized(tok) ==
    [k \in DOMAIN tok |-> IF k = 1 THEN UpperChar(tok[k]) ELSE tok[k]]
\* A token with each letter upper-cased when it starts the token or follows
\* a character that is no letter, and lower-cased otherwise
TokenTitled(tok) ==
    [k \in DOMAIN tok |->
        IF k = 1 \/ ~IsCased(tok[k-1]) THEN UpperChar(tok[k])
        ELSE LowerChar(tok[k])]
TokenLowered(tok) == [k \in DOMAIN tok |-> LowerChar(tok[k])]

\* The name the claim gives the k-th fixture, with the java tokens as
\* TokenCapitalized or as TokenTitled
ClaimedPrefix(k, JavaToken(_)) ==
    LET words == NameTokens(tests[k])
    IN  IF TemplateExtension(TemplateOf(k)) = S_java
        THEN S_commits_dir \o
             Join([w \in DOMAIN words |-> JavaToken(words[w])], <<>>)
        ELSE S_commits_dir \o
             Join([w \in DOMAIN words |-> TokenLowered(words[w])], <<"_">>)

\* C13 as claimed: for a java template the tokens are joined with their
\* first letter capitalized and the other letters kept as given
\* (CommitSourceAAwsKey); for the others they are joined with '_' in lower
\* case.
C13_NamesAsClaimed ==
    \A k \in DOMAIN tests :
        StartsWith(tests[k].test_file, ClaimedPrefix(k, TokenCapitalized))

\* C13 as amended: for a java template every letter of a token is
\* upper-cased when it starts the token or follows a character that is no
\* letter and lower-cased otherwise (CommitSourceaAwsKey); for the others
\* the tokens are joined with '_' in lower case.
C13_NamesTitled ==
    \A k \in DOMAIN tests :
        StartsWith(tests[k].test_file, ClaimedPrefix(k, TokenTitled))

S_CommitSourceaAwsKeyT_java ==
    S_commits_dir \o <<"C","o","m","m","i","t","S","o","u","r","c","e","a",
                       "A","w","s","K","e","y","T",".","j","a","v","a">>
S_commit_sourcea_aws_key_t_py ==
    S_commits_dir \o <<"c","o","m","m","i","t","_","s","o","u","r","c","e",
                       "a","_","a","w","s","_","k","e","y","_","t",".","p","y">>

C13_Witness ==
    /\ pc = "done"
    /\ Len(tests) = 2
    /\ tests[1].source = S_sourceA /\ tests[1].secret_type = S_aws_key
    /\ tests[1].test_file = S_CommitSourceaAwsKeyT_java
    /\ tests[2].test_file = S_commit_sourcea_aws_key_t_py

\* C18: fixtures of distinct (source, secretType, template) triples have
\* distinct file paths.
C18_DistinctTriplesDistinctPaths ==
    \A j, k \in DOMAIN tests :
        (<<tests[j].source, tests[j].secret_type, TemplateOf(j)>>
            # <<tests[k].source, tests[k].secret_type, TemplateOf(k)>>)
        => tests[j].test_file # tests[k].test_file

\* _build_commitable_temp_files has returned.
GenerationDone ==
    /\ entry \in {"check", "build_tests"}
    /\ cred
    /\ \/ pc = "populate" /\ count = Len(ssm_params)
       \/ Phase(pc) \in 4..7
       \/ pc = "done"
       \/ pc = "raised" /\ Phase(raisedAt) \in 4..7

\* C14: after fixture generation self.tests holds, in catalog order and for
\* each catalog entry in template order, exactly one fixture per (catalog
\* entry, template) pair: |catalog| * |templates| fixtures.
C14_OneFixturePerPair ==
    GenerationDone =>
        /\ Len(tests) = Len(catalog) * Len(templates)
        /\ \A c \in DOMAIN catalog : \A t \in DOMAIN templates :
              LET f == tests[(c - 1) * Len(templates) + t]
              IN  /\ f.source = catalog[c].source
                  /\ f.secret_type = catalog[c].secret_type
                  /\ f.file_type = TemplateExtension(templates[t])
                  /\ f.test_file =
                         generate_temp_file_name(catalog[c].source,
                                                 catalog[c].secret_type,
                                                 templates[t])

C14_Witness ==
    /\ pc = "done"
    /\ Len(catalog) = 2
    /\ catalog[1] # catalog[2]
    /\ Len(templates) = 2
    /\ Len(tests) = 4

\* C15: when a step of sandbox entry fails after the ephemeral branch was
\* created, no fixture is probed and check() still attempts the teardown, so
\* that the run does not end on the ephemeral branch.
C15_TeardownAfterFailedEntry ==
    (/\ entry = "check"
     /\ pc = "raised"
     /\ raisedAt \in {"checkout", "remove_ignore", "commit_ignore"})
    => /\ Probed = {}
       /\ teardownCalls > 0
       /\ head.ref # TestBranch

\* The aggregation loop of check() has run, to its end or to an exception.
AggregationRan ==
    /\ entry = "check"
    /\ \/ Aggregated
       \/ pc = "raised" /\ raisedAt = "aggregate"

\* The sum of the total counters of the buckets of st
RECURSIVE SumTotals(_, _)
SumTotals(st, keys) ==
    IF keys = {} THEN 0
    ELSE LET key == CHOOSE x \in keys : TRUE
         IN  st[key].total + SumTotals(st, keys \ {key})

\* check, lines 239-242: the overall total, from the status lists
OverallTotal == Len(status.passed) + Len(status.failed)

\* C16: the secret-type buckets, the file-type buckets and the overall tally
\* count the same fixtures: their totals are equal in every run.
C16_SameDenominators ==
    AggregationRan =>
        /\ SumTotals(secret_stats, DOMAIN secret_stats) = OverallTotal
        /\ SumTotals(language_stats, DOMAIN language_stats) = OverallTotal

\* ------------------------------------------------------------ paging
\* get_paged_ssm_params alone, against a store that serves a finite
\* sequence of pages.
\* Most pages a store serves.
MaxPages == 3
\* Most parameters on a page of the model (the code asks for at most 10).
MaxPageParams == 1
\* Requests after which the model stops following a call that does not end.
MaxRequests == 5

\* The values a NextToken may take: opaque strings, the empty one included.
TokenValues == {"", "t1", "t2"}

PageParams == SeqsUpTo(Entries, MaxPageParams)
Pages == [Parameters : PageParams, NextToken : TokenValues \cup {NoToken}]

\* A finite sequence of pages: every page but the last names the next one
\* by a token of its own, the last has no NextToken.
PageLists ==
    {l \in SeqsUpTo(Pages, MaxPages) :
        /\ l # <<>>
        /\ l[Len(l)].NextToken = NoToken
        /\ \A k \in 1..(Len(l) - 1) : l[k].NextToken # NoToken
        /\ NoDuplicates([k \in DOMAIN l |-> l[k].NextToken])}

\* ssm_client.get_parameters_by_path: without NextToken the first page, with
\* the NextToken of a page the page after it.
Serve(sent) ==
    IF sent = NoToken THEN pages[1]
    ELSE pages[(CHOOSE k \in DOMAIN pages : pages[k].NextToken = sent) + 1]

\* `if token:` - None and the empty string are false
Truthy(tok) == tok # NoToken /\ tok # ""

mainVars == <<entry, cred, catalog, templates, exc, raisedAt, worktree, index,
              objects, branches, head, origHead, parent_branch,
              removalCommit, entered, count, tests, status, i, detected,
              addRes, commitRes, teardownCalls, teardownSteps,
              language_stats, secret_stats, stats, printed>>

PagedInit ==
    /\ entry = "build_tests"
    /\ cred = TRUE
    /\ catalog = <<>>
    /\ templates = <<>>
    /\ pc = "call"
    /\ exc = ""
    /\ raisedAt = ""
    /\ worktree = BaseTree
    /\ index = BaseTree
    /\ objects = <<[parent |-> 0, tree |-> BaseTree]>>
    /\ branches = [b \in {MainBranch} |-> BaseCommit]
    /\ origHead = [ref |-> MainBranch, sha |-> 0]
    /\ head = origHead
    /\ parent_branch = 0
    /\ removalCommit = 0
    /\ entered = FALSE
    /\ ssm_params = <<>>
    /\ count = 0
    /\ tests = <<>>
    /\ status = [passed |-> <<>>, failed |-> <<>>]
    /\ i = 0
    /\ detected = FALSE
    /\ addRes = ""
    /\ commitRes = ""
    /\ teardownCalls = 0
    /\ teardownSteps = {}
    /\ language_stats = EmptyFn
    /\ secret_stats = EmptyFn
    /\ stats = EmptyFn
    /\ printed = <<>>
    /\ pages \in PageLists
    /\ token = NoToken
    /\ has_next_page = FALSE
    /\ requests = <<>>

\* get_paged_ssm_params, lines 15-18
PagedCall ==
    /\ pc = "call"
    /\ has_next_page' = TRUE
    /\ ssm_params' = <<>>
    /\ token' = NoToken
    /\ pc' = "paging"
    /\ UNCHANGED <<mainVars, pages, requests>>

\* get_paged_ssm_params, lines 19-37: one iteration of the while loop.  The
\* request carries NextToken only when token is true (lines 27-28).
RequestPage ==
    /\ pc = "paging"
    /\ has_next_page
    /\ Len(requests) < MaxRequests
    /\ LET sent == IF Truthy(token) THEN token ELSE NoToken
           response == Serve(sent)
       IN  /\ requests' = Append(requests, sent)
           /\ ssm_params' = ssm_params \o response.Parameters
           /\ IF response.NextToken # NoToken
              THEN /\ token' = response.NextToken
                   /\ has_next_page' = TRUE
              ELSE /\ token' = NoToken
                   /\ has_next_page' = FALSE
    /\ UNCHANGED <<mainVars, pages, pc>>

\* get_paged_ssm_params, line 38
PagedReturn ==
    /\ pc = "paging"
    /\ ~has_next_page
    /\ pc' = "returned"
    /\ UNCHANGED <<mainVars, pages, ssm_params, token, has_next_page,
                   requests>>

PagedNext ==
    \/ PagedCall
    \/ RequestPage
    \/ PagedReturn

PagedSpec == PagedInit /\ [][PagedNext]_vars

\* The parameters of the first n pages, in page order
RECURSIVE AllParameters(_)
AllParameters(n) ==
    IF n = 0 THEN <<>> ELSE AllParameters(n - 1) \o pages[n].Parameters

\* C17: get_paged_ssm_params sends one request per page, the first without
\* NextToken and each later one with the NextToken of the previous response,
\* whatever its value; it stops at the first response without NextToken and
\* returns the parameters of all pages in page order.
C17_OneRequestPerPage ==
    /\ Len(requests) <= Len(pages)
    /\ \A k \in DOMAIN requests :
           requests[k] = IF k = 1 THEN NoToken ELSE pages[k - 1].NextToken
    /\ pc = "returned" =>
           /\ Len(requests) = Len(pages)
           /\ ssm_params = AllParameters(Len(pages))

====
